---- MODULE Spec2Model ----
(***************************************************************************)
(* CraftID issuing service (shashankpatil28/basic-backend-fastapi).        *)
(*                                                                         *)
(* Two deployable applications share one logical model:                    *)
(*   - src/app/main.py + src/app/routes/*.py : FastAPI over MongoDB        *)
(*     (POST /create, POST /add-product, GET /get-products);               *)
(*   - src/main.py : FastAPI over Postgres (POST /create).                 *)
(* A deployment runs one of them; `backend` says which.  Handlers are      *)
(* coroutines: every `await` on the store is one step, so calls interleave *)
(* at exactly the points where the code yields.                            *)
(***************************************************************************)
EXTENDS Integers, Sequences, FiniteSets, TLC

\* Number of request slots (calls are numbered in order of arrival).
NumCalls == 2

\* Number of calls of a run that meet a store fault (timeout, connection or
\* write error).
MaxFaults == 1

Calls == 1..NumCalls

VARIABLES
    backend,    \* "mongo" (src/app) or "pg" (src/main.py)
    craftids,   \* the craftids collection / the committed rows of table craftids
    sequence,   \* last value handed out by the craftid_seq counter / craftid_public_seq
    utcnow,     \* number of clock readings made so far (each reading is later than the last)
    pc,         \* per call: the await the coroutine is suspended at
    op,         \* per call: the endpoint invoked
    data,       \* per call: the OnboardingData body
    seq,        \* per call: the local `seq` / `n` (0: nothing allocated)
    doc,        \* per call: the local `doc` (the row of the open transaction, for pg)
    fault,      \* per call: the store fault this call met ("none" if none)
    resp,       \* per call: the HTTP response
    before      \* per call: the calls that had already returned when it arrived

vars == <<backend, craftids, sequence, utcnow, pc, op, data, seq, doc, fault, resp, before>>

----------------------------------------------------------------------------
(* Text: art names are sequences of characters.                            *)

\* str.lower() / SQL lower() on one character of the alphabet used here.
LowerChar(ch) ==
    CASE ch = "V" -> "v"
      [] ch = "A" -> "a"
      [] ch = "B" -> "b"
      [] OTHER    -> ch

\* str.lower() / SQL lower().
Lower(s) == [i \in 1..Len(s) |-> LowerChar(s[i])]

RECURSIVE LStrip(_)
LStrip(s) == IF s # <<>> /\ Head(s) = " " THEN LStrip(Tail(s)) ELSE s

RECURSIVE RStrip(_)
RStrip(s) ==
    IF s # <<>> /\ s[Len(s)] = " " THEN RStrip(SubSeq(s, 1, Len(s) - 1)) ELSE s

\* str.strip().
Strip(s) == RStrip(LStrip(s))

\* art_name_norm = data.art.name.strip().lower()
ArtNameNorm(name) == Lower(Strip(name))

\* The key of the Postgres unique index idx_craftids_art_name_lower.
PgNameKey(name) == Lower(name)

----------------------------------------------------------------------------
(* Request bodies.                                                         *)

Artisan ==
    [name |-> "Asha", location |-> "Pune", contact_number |-> "98",
     email |-> "a@x.in", aadhaar_number |-> "12"]

\* The art names submitted: a name, a variant of it in case and surrounding
\* whitespace, and an unrelated name.
ArtNames == { <<"V", "a">>, <<" ", "v", "a", " ">>, <<"B">> }

Art(name, description) ==
    [name |-> name, description |-> description, photo |-> <<"p">>]

\* OnboardingData bodies the callers send.
Inputs ==
    { [artisan |-> Artisan, art |-> Art(n, <<"x">>)] : n \in ArtNames }
    \cup { [artisan |-> Artisan, art |-> Art(<<"V", "a">>, <<"y">>)] }

NoData == [artisan |-> Artisan, art |-> Art(<<>>, <<>>)]

----------------------------------------------------------------------------
(* Derived fields.                                                         *)

DigitChars == <<"0", "1", "2", "3", "4", "5", "6", "7", "8", "9">>

RECURSIVE Digits(_)
Digits(n) ==
    IF n < 10 THEN <<DigitChars[n + 1]>>
    ELSE Digits(n \div 10) \o <<DigitChars[(n % 10) + 1]>>

RECURSIVE ZeroPad(_, _)
ZeroPad(s, width) == IF Len(s) >= width THEN s ELSE ZeroPad(<<"0">> \o s, width)

\* Minimum digit count of the {n:05d} format.
PadWidth == 5

\* public_id = f"CID-{seq:05d}"
FormatPublicId(n) == <<"C", "I", "D", "-">> \o ZeroPad(Digits(n), PadWidth)

DigitValue(ch) == CHOOSE v \in 0..9 : DigitChars[v + 1] = ch

RECURSIVE DigitsValue(_)
DigitsValue(s) ==
    IF s = <<>> THEN 0
    ELSE 10 * DigitsValue(SubSeq(s, 1, Len(s) - 1)) + DigitValue(s[Len(s)])

\* The sequence number a public_id string carries.
PublicIdNumber(pid) == DigitsValue(SubSeq(pid, 5, Len(pid)))

\* Days until the credential expires.
ExpiryDays == 365

\* jwt.encode({"public_id": ..., "exp": utcnow() + 365 days}, SECRET_KEY, HS256):
\* the token is determined by its payload (key and algorithm are fixed).
JwtEncode(public_id, now) ==
    [alg |-> "HS256", public_id |-> public_id, exp |-> <<now, ExpiryDays>>]

\* hashlib.sha256(s.encode()).hexdigest(): an injective digest of the text.
Sha256(s) == <<"sha256", s>>

\* sha256 over art.name + art.description + art.photo (undelimited).
PublicHash(art) == Sha256(art.name \o art.description \o art.photo)

\* Clock readings are counted in ticks; this many ticks make a second.
TicksPerSecond == 2

MicrosPerSecond == 1000000

\* Width of the date-and-time fields YYYY-MM-DDTHH:MM:SS, which are of fixed
\* width and here hold the count of whole seconds.
SecondsWidth == 5

\* Digits of the microsecond field.
MicrosWidth == 6

Seconds(t) == t \div TicksPerSecond

Microseconds(t) == (t % TicksPerSecond) * (MicrosPerSecond \div TicksPerSecond)

\* datetime.isoformat(): YYYY-MM-DDTHH:MM:SS.ffffff, and YYYY-MM-DDTHH:MM:SS
\* when the microsecond is 0.
IsoFormat(t) ==
    ZeroPad(Digits(Seconds(t)), SecondsWidth)
    \o (IF Microseconds(t) = 0 THEN <<>>
        ELSE <<".">> \o ZeroPad(Digits(Microseconds(t)), MicrosWidth))

\* datetime.utcnow().isoformat() + "Z"
Timestamp(t) == IsoFormat(t) \o <<"Z">>

\* The instant, in microseconds, that a timestamp string denotes.
InstantOf(ts) ==
    MicrosPerSecond * DigitsValue(SubSeq(ts, 1, SecondsWidth))
    + (IF ts[SecondsWidth + 1] = "."
       THEN DigitsValue(SubSeq(ts, SecondsWidth + 2, SecondsWidth + 1 + MicrosWidth))
       ELSE 0)

\* Code point of a character of a timestamp.
CharCode(ch) ==
    CASE ch = "." -> 46
      [] ch = "Z" -> 90
      [] OTHER    -> 48 + DigitValue(ch)

\* Binary comparison of strings, the order of a sort on a string field.
RECURSIVE StrLessFrom(_, _, _)
StrLessFrom(a, b, i) ==
    IF i > Len(b) THEN FALSE
    ELSE IF i > Len(a) THEN TRUE
    ELSE IF a[i] # b[i] THEN CharCode(a[i]) < CharCode(b[i])
    ELSE StrLessFrom(a, b, i + 1)

StrLess(a, b) == StrLessFrom(a, b, 1)

NoDoc == [public_id |-> <<>>]

\* The document create / add-product build after allocating seq.
MongoDoc(d, n, now) ==
    [public_id                |-> FormatPublicId(n),
     private_key              |-> JwtEncode(FormatPublicId(n), now),
     public_hash              |-> PublicHash(d.art),
     art_name_norm            |-> ArtNameNorm(d.art.name),
     original_onboarding_data |-> d,
     timestamp                |-> Timestamp(now)]

\* The row the Postgres create inserts.
PgRow(d, n, now) ==
    [public_id                |-> FormatPublicId(n),
     private_key              |-> JwtEncode(FormatPublicId(n), now),
     public_hash              |-> PublicHash(d.art),
     original_onboarding_data |-> d,
     art_name                 |-> d.art.name,
     timestamp                |-> now]

----------------------------------------------------------------------------
(* Responses.                                                              *)

NoResp == [status |-> 0]

\* raise HTTPException(status_code, detail); an unhandled exception is
\* answered by the framework with 500 "Internal Server Error".
HttpError(status, detail) == [status |-> status, detail |-> detail]

Unhandled == HttpError(500, "Internal Server Error")

\* The JSON body of a successful create.
CreatedBody(d, r) ==
    [status       |-> "success",
     verification |-> [public_id   |-> r.public_id,
                       private_key |-> r.private_key,
                       public_hash |-> r.public_hash],
     artisan_info |-> [name |-> d.artisan.name, location |-> d.artisan.location],
     art_info     |-> [name |-> d.art.name, description |-> d.art.description],
     original_onboarding_data |-> d]

Created(d, r) == [status |-> 200, body |-> CreatedBody(d, r)]

\* A product view that copies the stored verification data, credential included.
ProductOutWithKey(r) ==
    [artisan_info |-> [name     |-> r.original_onboarding_data.artisan.name,
                       location |-> r.original_onboarding_data.artisan.location],
     art_info     |-> r.original_onboarding_data.art,
     verification |-> [public_id        |-> r.public_id,
                       private_key      |-> r.private_key,
                       public_hash      |-> r.public_hash,
                       verification_url |-> <<"/verify/", r.public_id>>],
     timestamp    |-> r.timestamp]

\* ProductOut: artisan_info, art_info, verification (public_id, public_hash,
\* verification_url) and timestamp, as built from a stored or a new document.
ProductOut(r) ==
    [artisan_info |-> [name     |-> r.original_onboarding_data.artisan.name,
                       location |-> r.original_onboarding_data.artisan.location],
     art_info     |-> r.original_onboarding_data.art,
     verification |-> [public_id        |-> r.public_id,
                       public_hash      |-> r.public_hash,
                       verification_url |-> <<"/verify/", r.public_id>>],
     timestamp    |-> r.timestamp]

----------------------------------------------------------------------------
(* The record store.                                                       *)

\* coll.find_one({"art_name_norm": norm}): the matching documents.
FindOne(norm) == { r \in craftids : r.art_name_norm = norm }

\* insert_one is rejected with DuplicateKey when a document with the same
\* art_name_norm, or the same public_id, is stored.
DuplicateKey(r) ==
    \E s \in craftids :
        s.art_name_norm = r.art_name_norm \/ s.public_id = r.public_id

\* SELECT 1 FROM craftids WHERE lower(art_name) = lower(:nm) LIMIT 1
PgCheck(name) == { r \in craftids : Lower(r.art_name) = Lower(name) }

\* public_id TEXT UNIQUE and the unique index on lower(art_name).
PgConflict(r, s) ==
    s.public_id = r.public_id \/ PgNameKey(s.art_name) = PgNameKey(r.art_name)

PgUniqueViolation(r) == \E s \in craftids : PgConflict(r, s)

\* next_sequence("craftid_seq"): an atomic fetch-and-increment of the counter
\* document; the first value is 1.
MongoNextSequence(last) == last + 1

\* A numbering taken from the number of stored rows (count(*) + 1).
PgNextvalFromCount(last) == Cardinality(craftids) + 1

\* nextval('craftid_public_seq'), a sequence that STARTs WITH 1 and
\* INCREMENTs BY 1.
PgNextval(last) == last + 1

----------------------------------------------------------------------------
(* Initial state: an empty store, no call in flight.                       *)

Init ==
    /\ backend \in {"mongo", "pg"}
    /\ craftids = {}
    /\ sequence = 0
    /\ utcnow = 0
    /\ pc = [c \in Calls |-> "idle"]
    /\ op = [c \in Calls |-> "none"]
    /\ data = [c \in Calls |-> NoData]
    /\ seq = [c \in Calls |-> 0]
    /\ doc = [c \in Calls |-> NoDoc]
    /\ fault = [c \in Calls |-> "none"]
    /\ resp = [c \in Calls |-> NoResp]
    /\ before = [c \in Calls |-> {}]

\* Calls are numbered as they arrive.
Arrives(c) == pc[c] = "idle" /\ (IF c = 1 THEN TRUE ELSE pc[c - 1] # "idle")

Returned == { c \in Calls : pc[c] = "done" }

\* The call returns `r`.
Return(c, r) ==
    /\ pc' = [pc EXCEPT ![c] = "done"]
    /\ resp' = [resp EXCEPT ![c] = r]

Faulted == { c \in Calls : fault[c] # "none" }

\* The call fails on store fault `f` with response `r`.
Fail(c, f, r) ==
    /\ Cardinality(Faulted) < MaxFaults
    /\ Return(c, r)
    /\ fault' = [fault EXCEPT ![c] = f]

\* A handler is entered: ensure_initialized() either succeeds or raises (502).
Enter(c, o, d, first) ==
    /\ Arrives(c)
    /\ op' = [op EXCEPT ![c] = o]
    /\ data' = [data EXCEPT ![c] = d]
    /\ before' = [before EXCEPT ![c] = Returned]
    /\ \/ /\ pc' = [pc EXCEPT ![c] = first]
          /\ UNCHANGED <<resp, fault>>
       \/ Fail(c, "init", HttpError(502, "DB init error"))
    /\ UNCHANGED <<backend, craftids, sequence, utcnow, seq, doc>>

----------------------------------------------------------------------------
(* POST /create over MongoDB (src/app/routes/craftid.py).                  *)

\* find_one with no filter: any stored document.
CreateExistingNoFilter(c) == craftids

\* art_name_norm = data.art.name.strip().lower();
\* existing = find_one({"art_name_norm": art_name_norm})
CreateExisting(c) == FindOne(ArtNameNorm(data[c].art.name))

CreateBegin(c) ==
    /\ backend = "mongo"
    /\ \E d \in Inputs : Enter(c, "create", d, "find")

\* existing = await wait_for(coll.find_one(...), timeout=4); 409 if found.
CreateFind(c) ==
    /\ backend = "mongo" /\ op[c] = "create" /\ pc[c] = "find"
    /\ \/ Fail(c, "read_timeout", HttpError(504, "DB read timed out"))
       \/ Fail(c, "read_error", HttpError(500, "DB read error"))
       \/ /\ CreateExisting(c) # {}
          /\ Return(c, HttpError(409, "A similar product name already exists."))
          /\ UNCHANGED fault
       \/ /\ CreateExisting(c) = {}
          /\ pc' = [pc EXCEPT ![c] = "alloc"]
          /\ UNCHANGED <<resp, fault>>
    /\ UNCHANGED <<backend, craftids, sequence, utcnow, op, data, seq, doc, before>>

\* seq = await wait_for(next_sequence("craftid_seq"), timeout=4); any
\* exception, the timeout included, is answered 502.  A timed-out increment
\* may or may not have reached the store.  On success the document is built.
CreateAlloc(c) ==
    /\ backend = "mongo" /\ op[c] = "create" /\ pc[c] = "alloc"
    /\ \/ /\ Fail(c, "alloc_timeout", HttpError(502, "Failed to allocate public id"))
          /\ \E applied \in BOOLEAN :
                sequence' = IF applied THEN MongoNextSequence(sequence) ELSE sequence
          /\ UNCHANGED <<utcnow, seq, doc>>
       \/ /\ Fail(c, "alloc_error", HttpError(502, "Failed to allocate public id"))
          /\ UNCHANGED <<sequence, utcnow, seq, doc>>
       \/ /\ sequence' = MongoNextSequence(sequence)
          /\ seq' = [seq EXCEPT ![c] = sequence']
          /\ utcnow' = utcnow + 1
          /\ doc' = [doc EXCEPT ![c] = MongoDoc(data[c], sequence', utcnow')]
          /\ pc' = [pc EXCEPT ![c] = "insert"]
          /\ UNCHANGED <<resp, fault>>
    /\ UNCHANGED <<backend, craftids, op, data, before>>

\* An insert that is stored although the call then fails.
CreateInsertThenFail(c) ==
    /\ backend = "mongo" /\ op[c] = "create" /\ pc[c] = "insert"
    /\ craftids' = craftids \cup {doc[c]}
    /\ Return(c, Unhandled)
    /\ UNCHANGED <<backend, sequence, utcnow, op, data, seq, doc, fault, before>>

\* await coll.insert_one(doc): not guarded, so a rejected insert is an
\* unhandled exception; otherwise the success body is returned.
CreateInsert(c) ==
    /\ backend = "mongo" /\ op[c] = "create" /\ pc[c] = "insert"
    /\ \/ /\ DuplicateKey(doc[c])
          /\ Return(c, Unhandled)
          /\ UNCHANGED <<craftids, fault>>
       \/ /\ ~DuplicateKey(doc[c])
          /\ \/ /\ Fail(c, "write_error", Unhandled)
                /\ UNCHANGED craftids
             \/ /\ craftids' = craftids \cup {doc[c]}
                /\ Return(c, Created(data[c], doc[c]))
                /\ UNCHANGED fault
    /\ UNCHANGED <<backend, sequence, utcnow, op, data, seq, doc, before>>

----------------------------------------------------------------------------
(* POST /add-product over MongoDB (src/app/routes/products.py).            *)

\* The lookup made with the name as submitted, not normalised.
AddProductExistingRaw(c) == FindOne(data[c].art.name)

\* art_name_norm = data.art.name.strip().lower();
\* existing = find_one({"art_name_norm": art_name_norm})
AddProductExisting(c) == FindOne(ArtNameNorm(data[c].art.name))

AddProductBegin(c) ==
    /\ backend = "mongo"
    /\ \E d \in Inputs : Enter(c, "add_product", d, "find")

\* existing = await wait_for(craftids.find_one(...), timeout=4); an existing
\* document is answered with its public fields.
AddProductFind(c) ==
    /\ backend = "mongo" /\ op[c] = "add_product" /\ pc[c] = "find"
    /\ \/ Fail(c, "read_timeout", HttpError(504, "DB read timed out"))
       \/ Fail(c, "read_error", HttpError(500, "DB read error"))
       \/ /\ \E existing \in AddProductExisting(c) :
                Return(c, [status |-> 200, body |-> ProductOut(existing)])
          /\ UNCHANGED fault
       \/ /\ AddProductExisting(c) = {}
          /\ pc' = [pc EXCEPT ![c] = "alloc"]
          /\ UNCHANGED <<resp, fault>>
    /\ UNCHANGED <<backend, craftids, sequence, utcnow, op, data, seq, doc, before>>

\* seq = await wait_for(next_sequence("craftid_seq"), timeout=4), as in create.
AddProductAlloc(c) ==
    /\ backend = "mongo" /\ op[c] = "add_product" /\ pc[c] = "alloc"
    /\ \/ /\ Fail(c, "alloc_timeout", HttpError(502, "Failed to allocate public id"))
          /\ \E applied \in BOOLEAN :
                sequence' = IF applied THEN MongoNextSequence(sequence) ELSE sequence
          /\ UNCHANGED <<utcnow, seq, doc>>
       \/ /\ Fail(c, "alloc_error", HttpError(502, "Failed to allocate public id"))
          /\ UNCHANGED <<sequence, utcnow, seq, doc>>
       \/ /\ sequence' = MongoNextSequence(sequence)
          /\ seq' = [seq EXCEPT ![c] = sequence']
          /\ utcnow' = utcnow + 1
          /\ doc' = [doc EXCEPT ![c] = MongoDoc(data[c], sequence', utcnow')]
          /\ pc' = [pc EXCEPT ![c] = "insert"]
          /\ UNCHANGED <<resp, fault>>
    /\ UNCHANGED <<backend, craftids, op, data, before>>

\* try: await craftids.insert_one(doc) / except Exception: 500.
AddProductInsert(c) ==
    /\ backend = "mongo" /\ op[c] = "add_product" /\ pc[c] = "insert"
    /\ \/ /\ DuplicateKey(doc[c])
          /\ Return(c, HttpError(500, "DB insert error"))
          /\ UNCHANGED <<craftids, fault>>
       \/ /\ ~DuplicateKey(doc[c])
          /\ \/ /\ Fail(c, "write_error", HttpError(500, "DB insert error"))
                /\ UNCHANGED craftids
             \/ /\ craftids' = craftids \cup {doc[c]}
                /\ Return(c, [status |-> 200, body |-> ProductOut(doc[c])])
                /\ UNCHANGED fault
    /\ UNCHANGED <<backend, sequence, utcnow, op, data, seq, doc, before>>

----------------------------------------------------------------------------
(* GET /get-products over MongoDB (src/app/routes/products.py).            *)

\* Page size of the listing.
PageLimit == 200

\* craftids.find().sort("timestamp", -1): the documents by their timestamp
\* strings, greatest first (each document after those that sort above it).
SortByTimestampDesc(S) ==
    LET ranked == { <<Cardinality({ s \in S :
                                      StrLess(r.timestamp, s.timestamp) }), r>> :
                    r \in S }
    IN  [i \in 1..Cardinality(S) |-> (CHOOSE p \in ranked : p[1] = i - 1)[2]]

\* cursor.to_list(length=n)
ToList(cursor, n) == SubSeq(cursor, 1, IF Len(cursor) < n THEN Len(cursor) ELSE n)

\* The list get_products returns for a store holding S.
ProductList(S) ==
    LET docs == ToList(SortByTimestampDesc(S), PageLimit)
    IN  [i \in 1..Len(docs) |-> ProductOut(docs[i])]

GetProductsBegin(c) ==
    /\ backend = "mongo"
    /\ Enter(c, "get_products", NoData, "list")

GetProductsList(c) ==
    /\ backend = "mongo" /\ op[c] = "get_products" /\ pc[c] = "list"
    /\ \/ Fail(c, "read_error", HttpError(500, "DB read error"))
       \/ /\ Return(c, [status |-> 200, body |-> ProductList(craftids)])
          /\ UNCHANGED fault
    /\ UNCHANGED <<backend, craftids, sequence, utcnow, op, data, seq, doc, before>>

----------------------------------------------------------------------------
(* POST /create over Postgres (src/main.py): one transaction per call.     *)

\* async with SessionLocal() as session: async with session.begin():
PgCreateBegin(c) ==
    /\ backend = "pg"
    /\ Arrives(c)
    /\ \E d \in Inputs : data' = [data EXCEPT ![c] = d]
    /\ op' = [op EXCEPT ![c] = "create"]
    /\ before' = [before EXCEPT ![c] = Returned]
    /\ pc' = [pc EXCEPT ![c] = "check"]
    /\ UNCHANGED <<backend, craftids, sequence, utcnow, seq, doc, fault, resp>>

\* The SELECT sees committed rows; a match is answered 409.
PgCreateCheck(c) ==
    /\ backend = "pg" /\ pc[c] = "check"
    /\ \/ /\ PgCheck(data[c].art.name) # {}
          /\ Return(c, HttpError(409, "A similar product name already exists."))
       \/ /\ PgCheck(data[c].art.name) = {}
          /\ pc' = [pc EXCEPT ![c] = "nextval"]
          /\ UNCHANGED resp
    /\ UNCHANGED <<backend, craftids, sequence, utcnow, op, data, seq, doc, fault, before>>

\* SELECT nextval('craftid_public_seq'): never rolled back.
PgCreateNextval(c) ==
    /\ backend = "pg" /\ pc[c] = "nextval"
    /\ sequence' = PgNextval(sequence)
    /\ seq' = [seq EXCEPT ![c] = sequence']
    /\ pc' = [pc EXCEPT ![c] = "insert"]
    /\ UNCHANGED <<backend, craftids, utcnow, op, data, doc, fault, resp, before>>

\* Rows inserted by transactions that are still open.
PgPending(c) == { doc[d] : d \in { e \in Calls \ {c} : pc[e] = "commit" } }

\* INSERT INTO craftids: waits while an open transaction holds a conflicting
\* row; a conflict with a committed row raises (unhandled: the transaction
\* rolls back and the framework answers 500).
PgCreateInsert(c) ==
    /\ backend = "pg" /\ pc[c] = "insert"
    /\ utcnow' = utcnow + 1
    /\ LET row == PgRow(data[c], seq[c], utcnow')
       IN  /\ \A s \in PgPending(c) : ~PgConflict(row, s)
           /\ \/ /\ PgUniqueViolation(row)
                 /\ Return(c, Unhandled)
                 /\ UNCHANGED doc
              \/ /\ ~PgUniqueViolation(row)
                 /\ doc' = [doc EXCEPT ![c] = row]
                 /\ pc' = [pc EXCEPT ![c] = "commit"]
                 /\ UNCHANGED resp
    /\ UNCHANGED <<backend, craftids, sequence, op, data, seq, fault, before>>

\* Leaving session.begin() commits; the response is built from the locals.
PgCreateCommit(c) ==
    /\ backend = "pg" /\ pc[c] = "commit"
    /\ craftids' = craftids \cup {doc[c]}
    /\ Return(c, Created(data[c], doc[c]))
    /\ UNCHANGED <<backend, sequence, utcnow, op, data, seq, doc, fault, before>>

----------------------------------------------------------------------------
Next ==
    \E c \in Calls :
        \/ CreateBegin(c)
        \/ CreateFind(c)
        \/ CreateAlloc(c)
        \/ CreateInsert(c)
        \/ AddProductBegin(c)
        \/ AddProductFind(c)
        \/ AddProductAlloc(c)
        \/ AddProductInsert(c)
        \/ GetProductsBegin(c)
        \/ GetProductsList(c)
        \/ PgCreateBegin(c)
        \/ PgCreateCheck(c)
        \/ PgCreateNextval(c)
        \/ PgCreateInsert(c)
        \/ PgCreateCommit(c)

Spec == Init /\ [][Next]_vars

----------------------------------------------------------------------------
(* Vocabulary of the properties.                                           *)

Started == { c \in Calls : pc[c] # "idle" }

Status(c) == resp[c].status

Succeeded(c) == pc[c] = "done" /\ Status(c) = 200

\* The call ran to its end without meeting a store fault.
Clean(c) == pc[c] = "done" /\ fault[c] = "none"

IsCreate(c) == op[c] = "create"

ArtName(c) == data[c].art.name

\* The art name a stored record was submitted with.
StoredName(r) == r.original_onboarding_data.art.name

\* Call c returned before call d arrived.
Precedes(c, d) == c \in before[d]

\* The calls that passed the duplicate pre-check and were given a sequence value.
Allocated == { c \in Calls : seq[c] # 0 }

----------------------------------------------------------------------------
\* C1: when two or more create calls with the same art name have all run to
\* their end without a store fault, in whatever interleaving, exactly one
\* of them returned success and every other one returned 409 Conflict.
C1_OneSuccessRestConflict ==
    (/\ Cardinality(Started) >= 2
     /\ \A c \in Started : IsCreate(c) /\ Clean(c)
     /\ \A c, d \in Started : ArtName(c) = ArtName(d))
    => /\ Cardinality({ c \in Started : Status(c) = 200 }) = 1
       /\ \A c \in Started : Status(c) \in {200, 409}

C3_PublicIdsIncreaseNeverReused ==
    /\ [](/\ \A c, d \in Allocated : c # d => seq[c] # seq[d]
          /\ \A c \in Allocated : seq[c] <= sequence
          /\ \A r, s \in craftids : r # s => r.public_id # s.public_id
          /\ \A r \in craftids :
                \E c \in Allocated : r.public_id = FormatPublicId(seq[c]))
    /\ [][\A c \in Calls :
            seq'[c] # seq[c] =>
                /\ seq'[c] > sequence
                /\ \A d \in Calls : seq'[c] > seq[d]]_vars

\* C3 witness: a call was given a value, its insert failed, and a later call
\* was given a larger value and stored its record.
C3_Witness ==
    \E c, d \in Allocated :
        /\ pc[c] = "done" /\ Status(c) # 200
        /\ seq[d] > seq[c]
        /\ Succeeded(d)
        /\ \E r \in craftids : r.public_id = FormatPublicId(seq[d])

C5_LostRaceIsConflict ==
    \A c \in Allocated :
        (IsCreate(c) /\ Clean(c)) => Status(c) \in {200, 409}

\* C6: of two add_product calls with the same art name, the second arriving
\* after the first returned success, the second (met by no fault) returns
\* the same public_id and public_hash, allocates no sequence value and
\* inserts nothing; of two such create calls the second returns 409.
C6_AddProductIdempotent ==
    \A c, d \in Calls :
        (/\ op[c] = op[d] /\ Precedes(c, d) /\ ArtName(c) = ArtName(d)
         /\ Succeeded(c) /\ Clean(d))
        => /\ op[d] = "add_product" =>
                /\ Status(d) = 200
                /\ resp[d].body.verification.public_id
                     = resp[c].body.verification.public_id
                /\ resp[d].body.verification.public_hash
                     = resp[c].body.verification.public_hash
                /\ seq[d] = 0 /\ doc[d] = NoDoc
           /\ op[d] = "create" => Status(d) = 409

\* C6 witness: add_product answered a second submission of an art name, made
\* with another description, from the stored record.
C6_Witness ==
    \E c, d \in Calls :
        /\ op[c] = "add_product" /\ op[d] = "add_product" /\ Precedes(c, d)
        /\ ArtName(c) = ArtName(d) /\ data[c] # data[d]
        /\ Succeeded(c) /\ Succeeded(d)

\* C7: a create whose store call timed out returns 504, and the value of a
\* timed-out allocation is given to no call.
C7_TimeoutIs504 ==
    \A c \in Calls :
        (IsCreate(c) /\ fault[c] \in {"read_timeout", "alloc_timeout"})
        => /\ Status(c) = 504
           /\ seq[c] = 0

KeysOfView(v) ==
    (IF "private_key" \in DOMAIN v THEN {v.private_key} ELSE {})
    \cup (IF "private_key" \in DOMAIN v.verification
          THEN {v.verification.private_key} ELSE {})

\* The private keys the response of a returned call carries.
KeysDisclosed(c) ==
    CASE Status(c) # 200          -> {}
      [] op[c] = "get_products"   ->
            UNION { KeysOfView(resp[c].body[i]) : i \in 1..Len(resp[c].body) }
      [] OTHER                    -> KeysOfView(resp[c].body)

\* C9: the response of a successful create carries the private_key issued by
\* that call and no other; no response of add_product, of get_products or of
\* a create that failed carries any private_key.
C9_PrivateKeyOnlyAtIssuance ==
    \A c \in Returned :
        KeysDisclosed(c) =
            IF IsCreate(c) /\ Status(c) = 200 THEN {doc[c].private_key} ELSE {}

\* C9 witness: a create issued and disclosed a private_key, and a later
\* add_product for the same normalized name was answered from that stored
\* record.
C9_Witness ==
    \E c, d \in Returned :
        /\ IsCreate(c) /\ Status(c) = 200 /\ Precedes(c, d)
        /\ op[d] = "add_product" /\ Status(d) = 200 /\ seq[d] = 0
        /\ resp[d].body.verification.public_id = doc[c].public_id
        /\ doc[c] \in craftids

\* C10: a step of a create call other than its successful return leaves the
\* stored records as they were, no step removes or alters a stored record,
\* and every stored record is that of an issuing call that returned success.
C10_FailedCreateLeavesStore ==
    /\ [][/\ \A c \in Calls :
               (/\ op'[c] = "create" /\ pc'[c] # pc[c]
                /\ ~(pc'[c] = "done" /\ resp'[c].status = 200))
               => craftids' = craftids
          /\ craftids \subseteq craftids']_vars
    /\ [](\A r \in craftids : \E c \in Calls : Succeeded(c) /\ doc[c] = r)

\* C10 witness: a create was given a sequence value and then failed, while
\* the store holds a record.
C10_Witness ==
    \E c \in Allocated :
        /\ IsCreate(c) /\ pc[c] = "done" /\ Status(c) # 200
        /\ craftids # {}
        /\ sequence > Cardinality(craftids)

----------------------------------------------------------------------------
(* The listing over a populated MongoDB store.                             *)

\* Largest number of records by which the populated store exceeds the page.
ExtraRecords == 1

\* Largest number of sequence values consumed, before the stored records were
\* issued, by calls whose insert failed.
MaxGap == 1

\* The body of the i-th successful submission.
ListInput(i) == [artisan |-> Artisan, art |-> Art(<<"B">> \o Digits(i), <<"x">>)]

\* The store after n submissions of distinct art names, made one after the
\* other, each stored; `gap` earlier allocations were wasted.
PopulatedStore(n, gap) == { MongoDoc(ListInput(i), gap + i, gap + i) : i \in 1..n }

\* Store sizes: empty and small ones, and those around the page size.
ListSizes == 0..2 \cup PageLimit..(PageLimit + ExtraRecords)

InitList ==
    /\ backend = "mongo"
    /\ \E n \in ListSizes, gap \in 0..MaxGap :
          /\ craftids = PopulatedStore(n, gap)
          /\ sequence = gap + n
          /\ utcnow = gap + n
    /\ pc = [c \in Calls |-> "idle"]
    /\ op = [c \in Calls |-> "none"]
    /\ data = [c \in Calls |-> NoData]
    /\ seq = [c \in Calls |-> 0]
    /\ doc = [c \in Calls |-> NoDoc]
    /\ fault = [c \in Calls |-> "none"]
    /\ resp = [c \in Calls |-> NoResp]
    /\ before = [c \in Calls |-> {}]

NextList ==
    \E c \in Calls :
        \/ GetProductsBegin(c)
        \/ GetProductsList(c)

\* get_products calls against a populated store.
SpecList == InitList /\ [][NextList]_vars

\* The calls of get_products that returned a list.
Listed == { c \in Returned : op[c] = "get_products" /\ Status(c) = 200 }

\* The list holds min(number of stored records, PageLimit) entries.
ListIsCapped(body) ==
    Len(body) = (IF Cardinality(craftids) < PageLimit
                 THEN Cardinality(craftids) ELSE PageLimit)

\* Every entry was created no earlier than the entries after it.
ListIsNewestFirst(body) ==
    \A i \in 1..(Len(body) - 1) :
        InstantOf(body[i].timestamp) >= InstantOf(body[i + 1].timestamp)

\* Every entry is the view of a stored record, and no stored record that is
\* left out was created after a listed one.
ListHoldsNewest(body) ==
    LET ids    == { body[i].verification.public_id : i \in 1..Len(body) }
        listed == { r \in craftids : r.public_id \in ids }
    IN  /\ Cardinality(ids) = Len(body)
        /\ \A i \in 1..Len(body) :
               \E r \in listed :
                   r.public_id = body[i].verification.public_id
                   /\ body[i] = ProductOut(r)
        /\ \A r \in craftids \ listed, s \in listed :
               InstantOf(r.timestamp) <= InstantOf(s.timestamp)

\* C11: every list get_products returned holds at most 200 entries (exactly
\* 200 when more than 200 records are stored), is ordered by creation time,
\* newest first, and holds the newest records; get_products leaves the stored
\* records and the sequence counter as they were.
C11_ListNewestFirstCapped ==
    /\ [](\A c \in Listed :
            /\ ListIsCapped(resp[c].body)
            /\ ListIsNewestFirst(resp[c].body)
            /\ ListHoldsNewest(resp[c].body))
    /\ [][craftids' = craftids /\ sequence' = sequence]_vars

\* The parts of C11 that hold: the cap, and the store left as it was.
C11_CappedStoreUnchanged ==
    /\ [](\A c \in Listed : ListIsCapped(resp[c].body))
    /\ [][craftids' = craftids /\ sequence' = sequence]_vars

\* The order the code does keep: descending by the timestamp strings.
C11_DescendingByString ==
    \A c \in Listed :
        \A i \in 1..(Len(resp[c].body) - 1) :
            ~StrLess(resp[c].body[i].timestamp, resp[c].body[i + 1].timestamp)

====
